---- MODULE Spec2Model ----
(***************************************************************************)
(* Statistics engine of focus (internal/stats.go): period resolution,      *)
(* history pre-population, minute-by-minute duration distribution, totals  *)
(* and averages, and the Show / Delete orchestration.                      *)
(*                                                                         *)
(* Time.  A time.Time is an integer number of seconds since 1970-01-01     *)
(* 00:00:00 in a location without daylight-saving transitions.  The zero   *)
(* time.Time is modelled by the instant 0: what the model keeps of it is   *)
(* that IsZero recognises it, that it precedes every other instant and     *)
(* that it is more than maxHoursInAYear hours away from all of them.       *)
(* A time.Duration in float64 hours / minutes is computed on whole         *)
(* seconds; math.Round rounds halves away from zero.                       *)
(***************************************************************************)
EXTENDS Integers, Sequences, FiniteSets, TLC

\* ---- program constants (stats.go:26-31) ----
hoursInADay == 24
maxHoursInAMonth == 744
maxHoursInAYear == 8784
minutesInAnHour == 60

SecondsInAMinute == 60
SecondsInAnHour == minutesInAnHour * SecondsInAMinute
SecondsInADay == hoursInADay * SecondsInAnHour

\* ---- bounds of the model ----
MaxSessions == 2

\* ---- time.Time ----
ZeroTime == 0

IsZero(t) == t = ZeroTime

\* days since 1970-01-01 of the civil date y-m-d (proleptic Gregorian)
DaysFromCivil(y, m, d) ==
  LET yy  == IF m <= 2 THEN y - 1 ELSE y
      era == yy \div 400
      yoe == yy - era * 400
      mp  == (m + 9) % 12
      doy == (153 * mp + 2) \div 5 + d - 1
      doe == yoe * 365 + yoe \div 4 - yoe \div 100 + doy
  IN  era * 146097 + doe - 719468

\* civil date <<year, month, day>> of a day number
CivilFromDays(z) ==
  LET zz  == z + 719468
      era == zz \div 146097
      doe == zz - era * 146097
      yoe == (doe - doe \div 1460 + doe \div 36524 - doe \div 146096) \div 365
      doy == doe - (365 * yoe + yoe \div 4 - yoe \div 100)
      mp  == (5 * doy + 2) \div 153
      d   == doy - (153 * mp + 2) \div 5 + 1
      m   == IF mp < 10 THEN mp + 3 ELSE mp - 9
      y   == yoe + era * 400
  IN  << IF m <= 2 THEN y + 1 ELSE y, m, d >>

DayOf(t) == t \div SecondsInADay
ClockOf(t) == t % SecondsInADay
Year(t) == CivilFromDays(DayOf(t))[1]
Month(t) == CivilFromDays(DayOf(t))[2]
Day(t) == CivilFromDays(DayOf(t))[3]
Hour(t) == ClockOf(t) \div SecondsInAnHour
\* time.Weekday: Sunday = 0; 1970-01-01 was a Thursday
Weekday(t) == (DayOf(t) + 4) % 7

\* time.Date(y, m, d, h, mi, s, 0, loc); out-of-range d is normalised
Date(y, m, d, h, mi, s) ==
  (DaysFromCivil(y, m, 1) + d - 1) * SecondsInADay
    + h * SecondsInAnHour + mi * SecondsInAMinute + s

\* t.AddDate(0, 0, days)
AddDate(t, days) ==
  Date(Year(t), Month(t), Day(t) + days,
       Hour(t), (ClockOf(t) % SecondsInAnHour) \div SecondsInAMinute,
       ClockOf(t) % SecondsInAMinute)

\* t.Format(layout) for the three history layouts
Format(t, layout) ==
  CASE layout = "January 02, 2006" -> << Year(t), Month(t), Day(t) >>
    [] layout = "January 2006"     -> << Year(t), Month(t) >>
    [] layout = "2006"             -> << Year(t) >>

\* roundTime(d.Hours()) for a duration of secs seconds
RoundHours(secs) ==
  IF secs >= 0 THEN (secs + SecondsInAnHour \div 2) \div SecondsInAnHour
  ELSE -((-secs + SecondsInAnHour \div 2) \div SecondsInAnHour)

\* int(d.Hours()): truncation toward zero
TruncHours(secs) ==
  IF secs >= 0 THEN secs \div SecondsInAnHour
  ELSE -((-secs) \div SecondsInAnHour)

\* roundTime(secs / float64(minutesInAnHour)), secs >= 0
roundTime(secs) == (secs + minutesInAnHour \div 2) \div minutesInAnHour

\* ---- period keywords ----
statsPeriod ==
  { "all-time", "today", "yesterday", "7days", "14days", "30days",
    "90days", "180days", "365days" }

EndOfDay(t) == Date(Year(t), Month(t), Day(t), 23, 59, 59)
StartOfDay(t) == Date(Year(t), Month(t), Day(t), 0, 0, 0)

\* days subtracted from now by each N-day keyword
\* faulty variant: the N-day keywords step back N days instead of N-1
LookbackExclusive(p) ==
  CASE p = "yesterday" -> 1
    [] p = "7days"     -> 7
    [] p = "14days"    -> 14
    [] p = "30days"    -> 30
    [] p = "90days"    -> 90
    [] p = "180days"   -> 180
    [] p = "365days"   -> 365

Lookback(p) ==
  CASE p = "yesterday" -> 1
    [] p = "7days"     -> 6
    [] p = "14days"    -> 13
    [] p = "30days"    -> 29
    [] p = "90days"    -> 89
    [] p = "180days"   -> 179
    [] p = "365days"   -> 364

\* faulty variant: today starts at the clock reading, not at midnight
getPeriodTodayFromNow(p, clock) ==
  LET end == EndOfDay(clock) IN
  IF p = "today" THEN [start |-> clock, end |-> end]
  ELSE IF p \in statsPeriod \ {"all-time"}
  THEN LET start == AddDate(clock, -Lookback(p))
       IN  [start |-> StartOfDay(start),
            end   |-> IF p = "yesterday" THEN EndOfDay(start) ELSE end]
  ELSE [start |-> ZeroTime, end |-> end]

\* faulty variant: all-time leaves end unset
getPeriodUnsetEnd(p, clock) ==
  LET end == EndOfDay(clock) IN
  IF p \in statsPeriod \ {"all-time"}
  THEN LET start == IF p = "today" THEN clock
                    ELSE AddDate(clock, -Lookback(p))
       IN  [start |-> StartOfDay(start),
            end   |-> IF p = "yesterday" THEN EndOfDay(start) ELSE end]
  ELSE [start |-> ZeroTime, end |-> ZeroTime]

getPeriod(p, clock) ==
  LET end == EndOfDay(clock) IN
  IF p \in statsPeriod \ {"all-time"}
  THEN LET start == IF p = "today" THEN clock
                    ELSE AddDate(clock, -Lookback(p))
       IN  [start |-> StartOfDay(start),
            end   |-> IF p = "yesterday" THEN EndOfDay(start) ELSE end]
  ELSE [start |-> ZeroTime, end |-> end]

\* ---- command-line date options (NewStats) ----
\* An option is empty, a date "YYYY-MM-DD", a date with a 12-hour clock
\* "YYYY-MM-DD HH:MM:SS PM", or text that time.Parse rejects.
NoOpt == [kind |-> "empty"]
BadOpt == [kind |-> "malformed"]
DateOpt(y, m, d) == [kind |-> "date", y |-> y, m |-> m, d |-> d]
DateTimeOpt(y, m, d, h, mi, s, pm) ==
  [kind |-> "datetime", y |-> y, m |-> m, d |-> d,
   h |-> h, mi |-> mi, s |-> s, pm |-> pm]

\* a date-only option is completed with the given 12-hour clock
Expand(opt, h, mi, s, pm) ==
  IF opt.kind = "date"
  THEN DateTimeOpt(opt.y, opt.m, opt.d, h, mi, s, pm)
  ELSE opt

\* time.Parse("2006-1-2 3:4:5 PM", v) followed by time.Date(..., Local)
ParseDate(opt) ==
  Date(opt.y, opt.m, opt.d,
       (opt.h % 12) + (IF opt.pm THEN 12 ELSE 0), opt.mi, opt.s)

\* ---- quantity and Data ----
quantity == [minutes |-> 0, completed |-> 0, abandoned |-> 0]

NilData ==
  [Weekday |-> << >>, HourofDay |-> << >>, History |-> << >>,
   HistoryKeyFormat |-> "", Totals |-> quantity, Averages |-> quantity]

HistoryKeyFormat(hoursDiff) ==
  IF hoursDiff > hoursInADay /\ hoursDiff <= maxHoursInAMonth
  THEN "January 02, 2006"
  ELSE IF hoursDiff > maxHoursInAYear THEN "2006" ELSE "January 2006"

\* the labels visited by: for date := start; !date.After(end); date += 24h
HistoryKeys(start, end, layout) ==
  IF start > end THEN {}
  ELSE { Format(start + k * hoursInADay * SecondsInAnHour, layout) :
           k \in 0 .. ((end - start) \div (hoursInADay * SecondsInAnHour)) }

initData(start, end, hoursDiff) ==
  LET layout == HistoryKeyFormat(hoursDiff) IN
  [Weekday          |-> [w \in 0 .. 6 |-> quantity],
   HourofDay        |-> [h \in 0 .. 23 |-> quantity],
   History          |-> [k \in HistoryKeys(start, end, layout) |-> quantity],
   HistoryKeyFormat |-> layout,
   Totals           |-> quantity,
   Averages         |-> quantity]

\* ---- calculateSessionDuration ----
\* the retained minute-steps of sub-interval v from instant date on:
\* for date := v.StartTime; !date.After(v.EndTime); date += 1 minute
RECURSIVE MinuteSteps(_, _, _, _)
MinuteSteps(v, date, statsStart, statsEnd) ==
  IF date > v.EndTime THEN << >>
  ELSE LET rest == MinuteSteps(v, date + SecondsInAMinute, statsStart, statsEnd)
           end  == IF date + SecondsInAMinute > v.EndTime
                   THEN v.EndTime ELSE date + SecondsInAMinute
       IN  IF date < statsStart \/ date > statsEnd THEN rest
           ELSE << [date |-> date, secs |-> end - date] >> \o rest

RECURSIVE TimelineSteps(_, _, _)
TimelineSteps(timeline, statsStart, statsEnd) ==
  IF timeline = << >> THEN << >>
  ELSE MinuteSteps(Head(timeline), Head(timeline).StartTime, statsStart, statsEnd)
         \o TimelineSteps(Tail(timeline), statsStart, statsEnd)

RECURSIVE SumSecs(_)
SumSecs(steps) ==
  IF steps = << >> THEN 0 ELSE Head(steps).secs + SumSecs(Tail(steps))

\* the seconds a sub-interval adds to the session duration: once, at its
\* first retained minute-step, the time from that step to v.EndTime
DurationAdded(v, statsStart, statsEnd) ==
  LET steps == MinuteSteps(v, v.StartTime, statsStart, statsEnd)
  IN  IF steps = << >> THEN 0 ELSE v.EndTime - steps[1].date

RECURSIVE SessionSeconds(_, _, _)
SessionSeconds(timeline, statsStart, statsEnd) ==
  IF timeline = << >> THEN 0
  ELSE DurationAdded(Head(timeline), statsStart, statsEnd)
         + SessionSeconds(Tail(timeline), statsStart, statsEnd)

\* the accumulators hourly, weekday and daily: seconds per key
HourlySecs(steps, k) == SumSecs(SelectSeq(steps, LAMBDA x : Hour(x.date) = k))
WeekdaySecs(steps, k) == SumSecs(SelectSeq(steps, LAMBDA x : Weekday(x.date) = k))
DailySecs(steps, layout, k) ==
  SumSecs(SelectSeq(steps, LAMBDA x : Format(x.date, layout) = k))

\* the keys of the maps hourly, weekday and daily
HourlyKeys(steps) == { Hour(steps[n].date) : n \in 1 .. Len(steps) }
WeekdayKeys(steps) == { Weekday(steps[n].date) : n \in 1 .. Len(steps) }
DailyKeys(steps, layout) ==
  { Format(steps[n].date, layout) : n \in 1 .. Len(steps) }

\* faulty variant: the bucket minutes are truncated instead of rounded
AddMinutesTruncated(q, secs) ==
  [q EXCEPT !.minutes = @ + secs \div SecondsInAMinute]

AddMinutes(q, secs) == [q EXCEPT !.minutes = @ + roundTime(secs)]

calculateSessionDuration(d, s, statsStart, statsEnd) ==
  LET steps  == TimelineSteps(s.Timeline, statsStart, statsEnd)
      layout == d.HistoryKeyFormat
      daily  == DailyKeys(steps, layout)
  IN  [seconds |-> SessionSeconds(s.Timeline, statsStart, statsEnd),
       data |->
         [d EXCEPT
            !.Weekday = [k \in DOMAIN @ |->
               IF k \in WeekdayKeys(steps)
               THEN AddMinutes(@[k], WeekdaySecs(steps, k)) ELSE @[k]],
            !.HourofDay = [k \in DOMAIN @ |->
               IF k \in HourlyKeys(steps)
               THEN AddMinutes(@[k], HourlySecs(steps, k)) ELSE @[k]],
            !.History = [k \in DOMAIN @ |->
               IF k \in daily
               THEN AddMinutes(@[k], DailySecs(steps, layout, k)) ELSE @[k]]]]

\* ---- computeTotals: the body of its loop for one session ----
\* faulty variant: the completed / abandoned counters are spread over every
\* weekday and hour bucket that receives minutes of the session
CountSessionPerBucket(d, s, startTime, endTime) ==
  LET r        == calculateSessionDuration(d, s, startTime, endTime)
      steps    == TimelineSteps(s.Timeline, startTime, endTime)
      duration == roundTime(r.seconds)
      label    == Format(s.StartTime, d.HistoryKeyFormat)
      field    == IF s.Completed THEN "completed" ELSE "abandoned"
  IN  [r.data EXCEPT
         !.Weekday = [k \in DOMAIN @ |->
            IF k \in WeekdayKeys(steps) \cup {Weekday(s.StartTime)}
            THEN [@[k] EXCEPT ![field] = @ + 1] ELSE @[k]],
         !.HourofDay = [k \in DOMAIN @ |->
            IF k \in HourlyKeys(steps) \cup {Hour(s.StartTime)}
            THEN [@[k] EXCEPT ![field] = @ + 1] ELSE @[k]],
         !.History = IF label \in DOMAIN @
                     THEN [@ EXCEPT ![label][field] = @ + 1] ELSE @,
         !.Totals[field] = @ + 1,
         !.Totals.minutes = @ + duration]

\* an ended session: its duration, then the counters at its start instant
CountSession(d, s, startTime, endTime) ==
  LET r        == calculateSessionDuration(d, s, startTime, endTime)
      duration == roundTime(r.seconds)
      label    == Format(s.StartTime, d.HistoryKeyFormat)
      field    == IF s.Completed THEN "completed" ELSE "abandoned"
  IN  [r.data EXCEPT
         !.Weekday[Weekday(s.StartTime)][field] = @ + 1,
         !.HourofDay[Hour(s.StartTime)][field] = @ + 1,
         !.History = IF label \in DOMAIN @
                     THEN [@ EXCEPT ![label][field] = @ + 1] ELSE @,
         !.Totals[field] = @ + 1,
         !.Totals.minutes = @ + duration]

\* faulty variant: sessions in progress are counted too
SessionTotalsOfAny(d, s, startTime, endTime) ==
  CountSession(d, s, startTime, endTime)

SessionTotals(d, s, startTime, endTime) ==
  IF IsZero(s.EndTime) THEN d
  ELSE CountSession(d, s, startTime, endTime)

\* ---- computeAverages ----
numberOfDays(start, end) ==
  LET hoursDiff == RoundHours(EndOfDay(end) - start)
  IN  IF hoursDiff >= 0 THEN hoursDiff \div hoursInADay
      ELSE -((-hoursDiff) \div hoursInADay)

\* roundTime(float64(x) / float64(n)) for x >= 0 and n # 0
Average(x, n) ==
  IF n > 0 THEN (2 * x + n) \div (2 * n)
  ELSE -((2 * x - n) \div (-2 * n))

\* float64(x) / 0 is +Inf or NaN; converting it to int yields a value that
\* depends on the implementation
ImplementationDependent == {"math.MinInt64", "math.MaxInt64", "0"}

Averages(totals, n) ==
  IF n # 0
  THEN { [minutes   |-> Average(totals.minutes, n),
          completed |-> Average(totals.completed, n),
          abandoned |-> Average(totals.abandoned, n)] }
  ELSE [minutes : ImplementationDependent,
        completed : ImplementationDependent,
        abandoned : ImplementationDependent]

\* ---- inputs ----
\* the clock readings of time.Now()
Nows == { Date(2024, 3, 1, 10, 15, 20), Date(2025, 3, 5, 0, 0, 0) }

\* the --period option
Periods == statsPeriod \cup {"", "bogus"}

\* the subcommand run on the Stats value
Commands == {"show", "list", "delete"}

\* the --start and --end options
StartOpts ==
  { NoOpt, BadOpt, DateOpt(2024, 2, 29),
    DateTimeOpt(2024, 2, 28, 12, 0, 0, TRUE),
    DateTimeOpt(2024, 3, 1, 12, 0, 0, TRUE) }

EndOpts ==
  { NoOpt, BadOpt, DateOpt(2024, 3, 1),
    DateTimeOpt(2024, 3, 1, 12, 30, 0, FALSE) }

Interval(a, b) == [StartTime |-> a, EndTime |-> b]

\* the session records the store may hold
StoredSessions ==
  { \* 90 seconds inside one hour of March 1
    [StartTime |-> Date(2024, 3, 1, 9, 0, 0),
     EndTime   |-> Date(2024, 3, 1, 9, 1, 30),
     Completed |-> TRUE,
     Timeline  |-> << Interval(Date(2024, 3, 1, 9, 0, 0),
                               Date(2024, 3, 1, 9, 1, 30)) >>],
    \* paused over midnight: 90 seconds on February 29, 90 on March 1
    [StartTime |-> Date(2024, 2, 29, 23, 57, 0),
     EndTime   |-> Date(2024, 3, 1, 0, 1, 40),
     Completed |-> FALSE,
     Timeline  |-> << Interval(Date(2024, 2, 29, 23, 57, 0),
                               Date(2024, 2, 29, 23, 58, 30)),
                      Interval(Date(2024, 3, 1, 0, 0, 10),
                               Date(2024, 3, 1, 0, 1, 40)) >>],
    \* runs over the end of March 1
    [StartTime |-> Date(2024, 3, 1, 23, 58, 0),
     EndTime   |-> Date(2024, 3, 2, 0, 3, 0),
     Completed |-> TRUE,
     Timeline  |-> << Interval(Date(2024, 3, 1, 23, 58, 0),
                               Date(2024, 3, 2, 0, 3, 0)) >>],
    \* runs over the start of March 1
    [StartTime |-> Date(2024, 2, 29, 23, 58, 30),
     EndTime   |-> Date(2024, 3, 1, 0, 1, 30),
     Completed |-> TRUE,
     Timeline  |-> << Interval(Date(2024, 2, 29, 23, 58, 30),
                               Date(2024, 3, 1, 0, 1, 30)) >>],
    \* in progress
    [StartTime |-> Date(2024, 3, 1, 11, 0, 0),
     EndTime   |-> ZeroTime,
     Completed |-> TRUE,
     Timeline  |-> << Interval(Date(2024, 3, 1, 11, 0, 0),
                               Date(2024, 3, 1, 11, 5, 0)) >>] }

\* ---- the session store (DB) ----
InRange(s, start, end) ==
  /\ s.StartTime <= end
  /\ IsZero(s.EndTime) \/ s.EndTime >= start

\* the record lists store.getSessions(start, end) can return, in key order
StoreLists(start, end) ==
  { l \in UNION { [1 .. n -> { s \in StoredSessions : InRange(s, start, end) }] :
                    n \in 0 .. MaxSessions } :
      \A a, b \in 1 .. Len(l) : a < b => l[a].StartTime < l[b].StartTime }

\* Stats.getSessions: the sessions appended and the error returned
getSessions(start, end) ==
  { [err |-> "nil", sessions |-> l] : l \in StoreLists(start, end) }
    \cup { [err |-> "storage", sessions |-> << >>] }
    \cup { [err |-> "unmarshal", sessions |-> SubSeq(l, 1, Len(l) - 1)] :
             l \in StoreLists(start, end) \ { << >> } }

\* ---- state ----
VARIABLES
  pc,         \* position of the command
  now,        \* the clock reading
  ctx,        \* the command line: command and options period, start, end
  err,        \* the error returned so far ("nil" for none)
  StartTime,  \* Stats.StartTime
  EndTime,    \* Stats.EndTime
  Sessions,   \* Stats.Sessions
  HoursDiff,  \* Stats.HoursDiff
  Data,       \* Stats.Data
  i,          \* index of the next session in computeTotals
  log         \* store calls and writes, in order

vars == << pc, now, ctx, err, StartTime, EndTime, Sessions, HoursDiff, Data, i, log >>

Init ==
  /\ pc = "new"
  /\ now \in Nows
  /\ ctx \in [command : Commands, period : Periods,
              start : StartOpts, end : EndOpts]
  /\ err = "nil"
  /\ StartTime = ZeroTime
  /\ EndTime = ZeroTime
  /\ Sessions = << >>
  /\ HoursDiff = 0
  /\ Data = NilData
  /\ i = 0
  /\ log = << >>

\* ---- NewStats ----
NewStats ==
  /\ pc = "new"
  /\ LET gp    == getPeriod(ctx.period, now)
         start == Expand(ctx.start, 12, 0, 0, FALSE)
         end   == Expand(ctx.end, 11, 59, 59, TRUE)
         st    == IF start.kind = "datetime" THEN ParseDate(start) ELSE gp.start
         en    == IF end.kind = "datetime" THEN ParseDate(end) ELSE gp.end
     IN  IF ctx.period # "" /\ ctx.period \notin statsPeriod
         THEN /\ err' = "Period must be one of"
              /\ pc' = "failed"
              /\ UNCHANGED << StartTime, EndTime >>
         ELSE IF start.kind = "malformed"
                 \/ (end.kind = "malformed")
         THEN /\ err' = "errParsingDate"
              /\ pc' = "failed"
              /\ UNCHANGED << StartTime, EndTime >>
         ELSE IF en - st < 0
         THEN /\ err' = "errInvalidDateRange"
              /\ pc' = "failed"
              /\ UNCHANGED << StartTime, EndTime >>
         ELSE /\ StartTime' = st
              /\ EndTime' = en
              /\ pc' = "ready"
              /\ UNCHANGED err
  /\ UNCHANGED << now, ctx, Sessions, HoursDiff, Data, i, log >>

\* ---- log entries ----
GetCall(start, end, e) == << "store.getSessions", start, end, e >>
DeleteCall(start, end) == << "store.deleteSessions", start, end >>
CloseCall == << "store.close" >>
Write(what) == << "write", what >>
ReadLine == << "read", "line" >>

\* ---- Show: fetch, re-anchor an unset start, initData ----
Show ==
  /\ pc = "ready"
  /\ ctx.command = "show"
  /\ \E r \in getSessions(StartTime, EndTime) :
       /\ Sessions' = Sessions \o r.sessions
       /\ IF r.err # "nil"
          THEN /\ err' = r.err
               /\ pc' = "done"
               /\ log' = log \o << GetCall(StartTime, EndTime, r.err), CloseCall >>
               /\ UNCHANGED << StartTime, HoursDiff, Data, i >>
          ELSE LET st == IF IsZero(StartTime) /\ Len(Sessions') > 0
                         THEN StartOfDay(Sessions'[1].StartTime)
                         ELSE StartTime
                   hd == TruncHours(EndTime - st)
               IN  /\ StartTime' = st
                   /\ HoursDiff' = hd
                   /\ Data' = initData(st, EndTime, hd)
                   /\ i' = 1
                   /\ pc' = "totals"
                   /\ log' = Append(log, GetCall(StartTime, EndTime, "nil"))
                   /\ UNCHANGED err
  /\ UNCHANGED << now, ctx, EndTime >>

\* ---- computeTotals: one iteration of its loop ----
computeTotals ==
  /\ pc = "totals"
  /\ i <= Len(Sessions)
  /\ Data' = SessionTotals(Data, Sessions[i], StartTime, EndTime)
  /\ i' = i + 1
  /\ UNCHANGED << pc, now, ctx, err, StartTime, EndTime, Sessions, HoursDiff, log >>

\* ---- computeAverages, once the loop of computeTotals has ended ----
computeAverages ==
  /\ pc = "totals"
  /\ i > Len(Sessions)
  /\ \E a \in Averages(Data.Totals, numberOfDays(StartTime, EndTime)) :
       Data' = [Data EXCEPT !.Averages = a]
  /\ pc' = "display"
  /\ UNCHANGED << now, ctx, err, StartTime, EndTime, Sessions, HoursDiff, i, log >>

\* ---- the rest of Show: the report, then the deferred store.close ----
AveragesShown(start, end) == RoundHours(end - start) > hoursInADay

WorkHistoryShown(hoursDiff, totals) ==
  hoursDiff > hoursInADay /\ totals.minutes # 0

Report ==
  << Write("header"), Write("summary") >>
    \o (IF AveragesShown(StartTime, EndTime) THEN << Write("averages") >> ELSE << >>)
    \o (IF WorkHistoryShown(HoursDiff, Data.Totals)
        THEN << Write("work history") >> ELSE << >>)
    \o << Write("weekly breakdown"), Write("hourly breakdown") >>

ShowReport ==
  /\ pc = "display"
  /\ log' = log \o Report \o << CloseCall >>
  /\ pc' = "done"
  /\ UNCHANGED << now, ctx, err, StartTime, EndTime, Sessions, HoursDiff, Data, i >>

\* ---- List ----
\* what List appends to the log for a result r of getSessions
Listing(r) ==
  << GetCall(StartTime, EndTime, r.err) >>
    \o (IF r.err # "nil" THEN << >>
        ELSE IF Len(Sessions \o r.sessions) = 0
        THEN << Write("No sessions found") >>
        ELSE << Write("table") >>)

List ==
  /\ pc = "ready"
  /\ ctx.command = "list"
  /\ \E r \in getSessions(StartTime, EndTime) :
       /\ Sessions' = Sessions \o r.sessions
       /\ err' = r.err
       /\ log' = log \o Listing(r)
  /\ pc' = "done"
  /\ UNCHANGED << now, ctx, StartTime, EndTime, HoursDiff, Data, i >>

\* faulty variant: Delete asks for confirmation whatever the number of sessions
DeleteWithoutEmptyCheck ==
  /\ pc = "ready"
  /\ ctx.command = "delete"
  /\ \E r \in getSessions(StartTime, EndTime) :
       /\ Sessions' = Sessions \o r.sessions
       /\ err' = r.err
       /\ IF r.err # "nil"
          THEN /\ log' = log \o Listing(r)
               /\ pc' = "done"
          ELSE /\ log' = log \o Listing(r) \o << Write("warning") >>
               /\ pc' = "confirm"
  /\ UNCHANGED << now, ctx, StartTime, EndTime, HoursDiff, Data, i >>

\* ---- Delete, up to the read of the confirmation line ----
Delete ==
  /\ pc = "ready"
  /\ ctx.command = "delete"
  /\ \E r \in getSessions(StartTime, EndTime) :
       /\ Sessions' = Sessions \o r.sessions
       /\ err' = r.err
       /\ IF r.err # "nil" \/ Len(Sessions') = 0
          THEN /\ log' = log \o Listing(r)
               /\ pc' = "done"
          ELSE /\ log' = log \o Listing(r) \o << Write("warning") >>
               /\ pc' = "confirm"
  /\ UNCHANGED << now, ctx, StartTime, EndTime, HoursDiff, Data, i >>

\* ---- Delete, from the confirmation line on ----
DeleteConfirmed ==
  /\ pc = "confirm"
  /\ log' = log \o << ReadLine, DeleteCall(StartTime, EndTime) >>
  /\ err' \in {"nil", "storage"}
  /\ pc' = "done"
  /\ UNCHANGED << now, ctx, StartTime, EndTime, Sessions, HoursDiff, Data, i >>

Next ==
  \/ NewStats
  \/ Show
  \/ computeTotals
  \/ computeAverages
  \/ ShowReport
  \/ List
  \/ Delete
  \/ DeleteConfirmed

Spec == Init /\ [][Next]_vars

\* ======================= properties =======================

\* Show has computed the totals of the first i - 1 sessions
Counting == pc \in {"totals", "display"} \/ (pc = "done" /\ ctx.command = "show" /\ err = "nil")

Max(a, b) == IF a >= b THEN a ELSE b
Min(a, b) == IF a <= b THEN a ELSE b

\* the seconds of sub-interval v that lie inside [start, end]
InsideSeconds(v, start, end) ==
  Max(0, Min(v.EndTime, end) - Max(v.StartTime, start))

RECURSIVE TimelineInside(_, _, _)
TimelineInside(timeline, start, end) ==
  IF timeline = << >> THEN 0
  ELSE InsideSeconds(Head(timeline), start, end)
         + TimelineInside(Tail(timeline), start, end)

\* the minutes the ended sessions among the first n have inside the window
RECURSIVE InsideMinutes(_)
InsideMinutes(n) ==
  IF n = 0 THEN 0
  ELSE InsideMinutes(n - 1)
         + (IF IsZero(Sessions[n].EndTime) THEN 0
            ELSE roundTime(TimelineInside(Sessions[n].Timeline, StartTime, EndTime)))

\* C1: time outside the reporting window is never counted: the minutes that
\* computeTotals has added to Totals are at most the minutes of the sessions'
\* sub-intervals that lie inside [StartTime, EndTime].
C1_OutsideNeverCounted ==
  Counting => Data.Totals.minutes <= InsideMinutes(i - 1)

\* ---- C2 ----
RECURSIVE SumOver(_, _)
SumOver(f, keys) ==
  IF keys = {} THEN 0
  ELSE LET k == CHOOSE x \in keys : TRUE
       IN  f[k].minutes + SumOver(f, keys \ {k})

HistoryMinutes == SumOver(Data.History, DOMAIN Data.History)

\* the history labels of the retained minute-steps of session s
SessionLabels(s) ==
  DailyKeys(TimelineSteps(s.Timeline, StartTime, EndTime),
            Data.HistoryKeyFormat)

\* every session is ended, every sub-interval lies inside the window and
\* every minute-step label is a key of History
AllInsideAndKeyed ==
  \A n \in 1 .. Len(Sessions) :
    /\ ~IsZero(Sessions[n].EndTime)
    /\ \A m \in 1 .. Len(Sessions[n].Timeline) :
         /\ StartTime <= Sessions[n].Timeline[m].StartTime
         /\ Sessions[n].Timeline[m].StartTime <= Sessions[n].Timeline[m].EndTime
         /\ Sessions[n].Timeline[m].EndTime <= EndTime
    /\ SessionLabels(Sessions[n]) \subseteq DOMAIN Data.History

\* C2 as claimed: when all session time lies inside the window and every
\* label is a pre-populated key, the History minutes sum to Totals.minutes,
\* also when a session's minutes are split across history buckets.
C2_HistorySumsToTotals ==
  (Counting /\ AllInsideAndKeyed) => HistoryMinutes = Data.Totals.minutes

\* the minute-steps of each session all carry one history label
OneLabelPerSession ==
  \A n \in 1 .. Len(Sessions) : Cardinality(SessionLabels(Sessions[n])) <= 1

\* C2 as amended: the History minutes sum to Totals.minutes when, in
\* addition, the minute-steps of each session all fall into one history
\* bucket.
C2_HistorySumsToTotalsOneBucket ==
  (Counting /\ AllInsideAndKeyed /\ OneLabelPerSession)
    => HistoryMinutes = Data.Totals.minutes

\* a session of two sub-intervals, all in one bucket, has been counted
C2_Witness ==
  /\ pc = "display"
  /\ AllInsideAndKeyed
  /\ OneLabelPerSession
  /\ \E n \in 1 .. Len(Sessions) : Len(Sessions[n].Timeline) = 2
  /\ Data.Totals.minutes = 5

\* ---- C3, C4, C5 ----
\* NewStats has returned the window of getPeriod, with no --start or --end
PeriodOnly(p) ==
  /\ pc \in {"ready", "confirm"}
  /\ ctx.period = p
  /\ ctx.start = NoOpt
  /\ ctx.end = NoOpt

Midnight(day) == day * SecondsInADay
LastSecond(day) == day * SecondsInADay + SecondsInADay - 1

\* C3 as claimed: for today, start is the current instant and end is
\* today at 23:59:59.
C3_TodayStartsNow ==
  PeriodOnly("today") =>
    StartTime = now /\ EndTime = LastSecond(DayOf(now))

\* C3 as amended: for today, start is 00:00:00 of today, truncated like
\* the starts of the N-day keywords, and end is today at 23:59:59.
C3_TodayStartsAtMidnight ==
  PeriodOnly("today") =>
    StartTime = Midnight(DayOf(now)) /\ EndTime = LastSecond(DayOf(now))

C3_Witness == PeriodOnly("today") /\ ClockOf(now) # 0

\* C4 as claimed: for all-time and for the empty keyword, start and end
\* are both the zero instant.
C4_AllTimeUnset ==
  (PeriodOnly("all-time") \/ PeriodOnly("")) =>
    IsZero(StartTime) /\ IsZero(EndTime)

\* C4 as amended: for all-time and for the empty keyword, start is the
\* zero instant and end is today at 23:59:59.
C4_AllTimeEndsToday ==
  (PeriodOnly("all-time") \/ PeriodOnly("")) =>
    IsZero(StartTime) /\ EndTime = LastSecond(DayOf(now))

C4_Witness == PeriodOnly("") /\ ClockOf(now) # 0

NDays(p) ==
  CASE p = "7days" -> 7 [] p = "14days" -> 14 [] p = "30days" -> 30
    [] p = "90days" -> 90 [] p = "180days" -> 180 [] p = "365days" -> 365

\* C5: an N-day keyword ends today at 23:59:59 and starts at 00:00:00 of
\* the day N-1 days before; yesterday starts and ends on yesterday; start
\* is at most end for every supported keyword.
C5_NDayWindow ==
  /\ \A p \in {"7days", "14days", "30days", "90days", "180days", "365days"} :
       PeriodOnly(p) =>
         /\ EndTime = LastSecond(DayOf(now))
         /\ StartTime = Midnight(DayOf(EndTime) - (NDays(p) - 1))
  /\ PeriodOnly("yesterday") =>
       /\ StartTime = Midnight(DayOf(now) - 1)
       /\ EndTime = LastSecond(DayOf(now) - 1)
  /\ \A p \in statsPeriod : PeriodOnly(p) => StartTime <= EndTime

\* a 30-day window that starts in the month before a leap day
C5_Witness == PeriodOnly("30days") /\ Month(StartTime) # Month(EndTime) /\ Day(now - SecondsInADay) = 29

\* ---- C6 ----
\* StartTime, EndTime and every midnight between them
WindowInstants ==
  {StartTime, EndTime}
    \cup { Midnight(d) : d \in (DayOf(StartTime) + 1) .. DayOf(EndTime) }

\* C6: after initData the label of every instant of [StartTime, EndTime]
\* is a key of History, also when StartTime is not at midnight.
C6_EveryLabelKeyed ==
  Counting =>
    \A t \in WindowInstants :
      Format(t, Data.HistoryKeyFormat) \in DOMAIN Data.History

\* ---- C7 ----
\* C7: the history label granularity follows the window length rounded to
\* the nearest hour, and the averages section and the work-history chart
\* are written on the same test of that length against 24 hours.
C7_GranularityOfRoundedHours ==
  LET hoursDiff == RoundHours(EndTime - StartTime) IN
  /\ Counting =>
       Data.HistoryKeyFormat =
         (IF 24 < hoursDiff /\ hoursDiff <= 744 THEN "January 02, 2006"
          ELSE IF hoursDiff > 8784 THEN "2006" ELSE "January 2006")
  /\ (pc = "done" /\ ctx.command = "show" /\ err = "nil") =>
       /\ (\E n \in 1 .. Len(log) : log[n] = Write("averages"))
            <=> hoursDiff > 24
       /\ (\E n \in 1 .. Len(log) : log[n] = Write("work history"))
            <=> (hoursDiff > 24 /\ Data.Totals.minutes # 0)

\* ---- C8 ----
\* C8: computeAverages never divides by zero: the divisor numberOfDays is
\* at least 1 whenever the averages have been computed.
C8_DivisorAtLeastOne ==
  (pc = "display" \/ (pc = "done" /\ ctx.command = "show" /\ err = "nil"))
    => numberOfDays(StartTime, EndTime) >= 1

\* ---- C9 ----
Has(entry) == \E n \in 1 .. Len(log) : log[n] = entry
Count(entry) == Cardinality({ n \in 1 .. Len(log) : log[n] = entry })
FetchFailed == \E n \in 1 .. Len(log) : log[n][1] = "store.getSessions" /\ log[n][4] # "nil"
Fetched == \E n \in 1 .. Len(log) : log[n][1] = "store.getSessions" /\ log[n][4] = "nil"
DeleteCalls == { n \in 1 .. Len(log) : log[n][1] = "store.deleteSessions" }

\* C9: in Delete, a fetch of zero sessions writes no confirmation prompt
\* and makes no deleteSessions call; a fetch of at least one session is
\* followed by the listing, the prompt, the read of one line and exactly
\* one deleteSessions(StartTime, EndTime) call, in this order; a failed
\* fetch makes no deleteSessions call.
C9_DeleteOrder ==
  ctx.command = "delete" =>
    /\ (Fetched /\ Len(Sessions) = 0) =>
         ~Has(Write("warning")) /\ DeleteCalls = {}
    /\ FetchFailed => DeleteCalls = {}
    /\ (pc = "done" /\ Fetched /\ Len(Sessions) > 0) =>
         log = << GetCall(StartTime, EndTime, "nil"), Write("table"),
                  Write("warning"), ReadLine,
                  DeleteCall(StartTime, EndTime) >>
    /\ Cardinality(DeleteCalls) <= 1
    /\ \A n \in DeleteCalls :
         n = 5 /\ SubSeq(log, 2, 4) = << Write("table"), Write("warning"), ReadLine >>

\* Delete has run to its end on a non-empty fetch
C9_Witness ==
  /\ ctx.command = "delete"
  /\ pc = "done"
  /\ Len(Sessions) > 0
  /\ DeleteCalls # {}

\* ---- C10 ----
\* C10: the iteration of computeTotals for a session whose EndTime is zero
\* leaves every field of Data unchanged.
C10_InProgressIgnored ==
  [][(pc = "totals" /\ i <= Len(Sessions) /\ IsZero(Sessions[i].EndTime))
       => Data' = Data]_vars

\* an in-progress session whose timeline lies inside the window has been
\* passed over after an ended session was counted
C10_Witness ==
  /\ pc = "totals"
  /\ i = 3
  /\ IsZero(Sessions[2].EndTime)
  /\ TimelineSteps(Sessions[2].Timeline, StartTime, EndTime) # << >>
  /\ Data.Totals.completed = 1

\* ---- C11 ----
RECURSIVE SumField(_, _, _)
SumField(f, keys, field) ==
  IF keys = {} THEN 0
  ELSE LET k == CHOOSE x \in keys : TRUE
       IN  f[k][field] + SumField(f, keys \ {k}, field)

\* the ended sessions among the first n
EndedSessions(n) == { m \in 1 .. n : ~IsZero(Sessions[m].EndTime) }

\* C11: each ended session is counted exactly once, at its start instant:
\* Totals.completed + Totals.abandoned is the number of ended sessions
\* counted so far, the weekday buckets and the hourOfDay buckets each sum to
\* Totals.completed and to Totals.abandoned, and the history buckets sum to
\* at most these totals.
C11_CountedOnce ==
  Counting =>
    /\ Data.Totals.completed + Data.Totals.abandoned
         = Cardinality(EndedSessions(i - 1))
    /\ \A field \in {"completed", "abandoned"} :
         /\ SumField(Data.Weekday, DOMAIN Data.Weekday, field) = Data.Totals[field]
         /\ SumField(Data.HourofDay, DOMAIN Data.HourofDay, field) = Data.Totals[field]
         /\ SumField(Data.History, DOMAIN Data.History, field) <= Data.Totals[field]

\* a session whose minutes fall into two weekday, two hour and two history
\* buckets has been counted, once
C11_Witness ==
  /\ pc = "display"
  /\ Data.Totals.completed + Data.Totals.abandoned = 1
  /\ \E n \in 1 .. Len(Sessions) :
       LET steps == TimelineSteps(Sessions[n].Timeline, StartTime, EndTime)
       IN  /\ ~IsZero(Sessions[n].EndTime)
           /\ Cardinality(HourlyKeys(steps)) = 2
           /\ Cardinality(WeekdayKeys(steps)) = 2
           /\ Cardinality(DailyKeys(steps, Data.HistoryKeyFormat)) = 2
====
